---- MODULE Spec2Model ----
(***************************************************************************)
(* A model of dangerzone/gui/common.py: the GuiCommon singleton (PDF      *)
(* viewer registry, viewer launcher, the two Docker privilege flows) and  *)
(* the Alert dialog.                                                       *)
(*                                                                         *)
(* Three specifications share the variables:                               *)
(*   Spec          the two privilege flows, called in any order;           *)
(*   SpecRegistry  GuiCommon.__init__ building the viewer registry;        *)
(*   SpecLaunch    open_pdf_viewer on a registry holding one entry.        *)
(* The code is single threaded: a modal dialog (Alert.launch) and a       *)
(* subprocess.run block the caller, so each flow is a sequence of steps    *)
(* separated by those blocking calls, and only one call is in progress.    *)
(***************************************************************************)
EXTENDS Integers, Sequences, FiniteSets, TLC

VARIABLES
    platform,     \* platform.system()
    op,           \* the public operation in progress or last finished
    pc,           \* where that operation stands
    result,       \* its return value: "None" until it returns
    raised,       \* the exception that left the operation, "none" if none
    log,          \* what the current call did, in order
    calls,        \* calls started so far
    helperRuns,   \* pkexec invocations so far, over all calls
    settings,     \* global_common.settings, in memory
    saved,        \* global_common.settings as last saved
    groupExists,  \* grp.getgrnam("docker") succeeds
    userInGroup,  \* getpass.getuser() in groupinfo.gr_mem
    dockerReady,  \* what is_docker_ready(global_common) answers
    pdf_viewers,  \* GuiCommon.pdf_viewers, in insertion order
    search_idx,   \* index of the search path being scanned
    todo,         \* entries still to visit in the current listing
    args,         \* the argument list handed to subprocess
    filename      \* the argument of open_pdf_viewer

vars == <<platform, op, pc, result, raised, log, calls, helperRuns, settings,
          saved, groupExists, userInGroup, dockerReady, pdf_viewers,
          search_idx, todo, args, filename>>

-----------------------------------------------------------------------------
(* Bounds *)

MaxCalls == 3

-----------------------------------------------------------------------------
(* Alert: a modal QDialog; launch() returns the code given to done().      *)

Accepted == 1
Rejected == 0
ExtraCode == 2

\* The codes Alert.launch() can return: clicked_ok, clicked_cancel (or the
\* window's close button, QDialog's reject), and clicked_extra when the
\* extra button was built.
AlertOutcomes(extra_button_text) ==
    {Accepted, Rejected} \cup (IF extra_button_text THEN {ExtraCode} ELSE {})

\* Exit codes of a pkexec run: 0, the command's own failure, pkexec's
\* "not authorized" (127) and "dialog dismissed" (126).
ExitCodes == {0, 1, 126, 127}

RcEvent(rc) == [e |-> "rc", v |-> rc]
ExitEvent(code) == [e |-> "exit", v |-> code]
ReadyEvent(b) == [e |-> "ready", v |-> IF b THEN 1 ELSE 0]
Event(name) == [e |-> name, v |-> 0]

Has(ev) == \E i \in DOMAIN log : log[i] = ev
HasKind(name) == \E i \in DOMAIN log : log[i].e = name
Count(name) == Cardinality({i \in DOMAIN log : log[i].e = name})

NoViewers == << >>
NoArgs == << >>

-----------------------------------------------------------------------------
(* Settings: set() changes the value in memory, save() writes it out.      *)

DefaultSettings(prefers, app) ==
    [linux_prefers_typing_password |-> prefers, open_app |-> app]

-----------------------------------------------------------------------------
(* ensure_docker_group_preference                                          *)

CanCall == pc \in {"idle", "done"} /\ calls < MaxCalls /\ raised = "none"

\* GroupNeedsDialog without the membership test of line 159.
GroupNeedsDialog_NoMemberTest ==
    /\ settings.linux_prefers_typing_password # TRUE
    /\ groupExists

\* Lines 147-159: the three ways out before any dialog.
GroupNeedsDialog ==
    /\ settings.linux_prefers_typing_password # TRUE
    /\ groupExists
    /\ ~userInGroup

\* Lines 145-168 and 202: up to the confirmation dialog, or straight out.
ensure_docker_group_preference ==
    /\ CanCall
    /\ op' = "group"
    /\ calls' = calls + 1
    /\ IF GroupNeedsDialog
         THEN /\ pc' = "group_confirm"
              /\ result' = "None"
              /\ log' = <<Event("confirm")>>
         ELSE /\ pc' = "done"
              /\ result' = "True"
              /\ log' = << >>
    /\ UNCHANGED <<platform, raised, helperRuns, settings, saved, groupExists,
                   userInGroup, dockerReady, pdf_viewers, search_idx, todo, args, filename>>

\* GroupConfirmBranch with a bare else in place of the test of line 174.
GroupConfirmBranch_ElseGroup(rc) ==
    IF rc = Accepted THEN "typing" ELSE "group"

\* GroupConfirmBranch with the two buttons' branches exchanged.
GroupConfirmBranch_Swapped(rc) ==
    IF rc = ExtraCode THEN "typing"
    ELSE IF rc = Accepted THEN "group"
    ELSE "cancel"

\* Lines 169, 174 and 198: which branch the dialog's return code selects.
GroupConfirmBranch(rc) ==
    IF rc = Accepted THEN "typing"
    ELSE IF rc = ExtraCode THEN "group"
    ELSE "cancel"

\* GroupPreference with the two written values exchanged.
GroupPreference_Inverted(branch) == branch # "typing"

\* Lines 171 and 176: the value written to linux_prefers_typing_password.
GroupPreference(branch) == branch = "typing"

\* GroupNotice that never looks at the return code.
GroupNotice_AlwaysRelogin(code) == "notice_relogin"

\* Lines 190-195: the notice shown after the usermod run.
GroupNotice(code) == IF code = 0 THEN "notice_relogin" ELSE "notice_failed"

\* Line 197: the value returned once that notice is closed.
GroupAfterHelperResult(code) == "False"

\* Lines 169-200: the confirmation dialog has returned rc.
GroupConfirmClosed(rc) ==
    /\ pc = "group_confirm"
    /\ IF GroupConfirmBranch(rc) = "typing"
         THEN /\ settings' = [settings EXCEPT !.linux_prefers_typing_password =
                                                  GroupPreference("typing")]
              /\ saved' = settings'
              /\ log' = log \o <<RcEvent(rc), Event("set"), Event("save")>>
              /\ pc' = "done"
              /\ result' = "True"
              /\ UNCHANGED helperRuns
         ELSE IF GroupConfirmBranch(rc) = "group"
         THEN /\ settings' = [settings EXCEPT !.linux_prefers_typing_password =
                                                  GroupPreference("group")]
              /\ saved' = settings'
              /\ log' = log \o <<RcEvent(rc), Event("set"), Event("save"),
                                 Event("pkexec")>>
              /\ helperRuns' = helperRuns + 1
              /\ pc' = "group_helper"
              /\ UNCHANGED result
         ELSE /\ log' = Append(log, RcEvent(rc))
              /\ pc' = "done"
              /\ result' = "False"
              /\ UNCHANGED <<settings, saved, helperRuns>>
    /\ UNCHANGED <<platform, op, raised, calls, groupExists, userInGroup,
                   dockerReady, pdf_viewers, search_idx, todo, args, filename>>

\* Lines 180-195: pkexec usermod has exited; the matching notice opens.
\* A usermod that exits 0 has added the user to the group.
GroupHelperExited(code) ==
    /\ pc = "group_helper"
    /\ userInGroup' = IF code = 0 THEN TRUE ELSE userInGroup
    /\ log' = log \o <<ExitEvent(code), Event(GroupNotice(code))>>
    /\ pc' = "group_notice"
    /\ UNCHANGED <<platform, op, result, raised, calls, helperRuns, settings, saved,
                   groupExists, dockerReady, pdf_viewers, search_idx, todo, args, filename>>

\* Lines 192/195-197: the notice is closed, whatever button closed it.
GroupNoticeClosed(rc) ==
    /\ pc = "group_notice"
    /\ log' = Append(log, RcEvent(rc))
    /\ pc' = "done"
    /\ result' = GroupAfterHelperResult(log[Len(log) - 1].v)
    /\ UNCHANGED <<platform, op, raised, calls, helperRuns, settings, saved,
                   groupExists, userInGroup, dockerReady, pdf_viewers,
                   search_idx, todo, args, filename>>

-----------------------------------------------------------------------------
(* ensure_docker_service_is_started                                        *)

\* Lines 204-208 and 232.
ensure_docker_service_is_started ==
    /\ CanCall
    /\ op' = "service"
    /\ calls' = calls + 1
    /\ IF ~dockerReady
         THEN /\ pc' = "service_confirm"
              /\ result' = "None"
              /\ log' = <<ReadyEvent(dockerReady), Event("confirm")>>
         ELSE /\ pc' = "done"
              /\ result' = "True"
              /\ log' = <<ReadyEvent(dockerReady)>>
    /\ UNCHANGED <<platform, raised, helperRuns, settings, saved, groupExists,
                   userInGroup, dockerReady, pdf_viewers, search_idx, todo, args, filename>>

\* ServiceConsents that ignores the dialog's return code.
ServiceConsents_Any(rc) == TRUE

\* Line 209: whether the dialog's return code lets the helper run.
ServiceConsents(rc) == rc = Accepted

\* Lines 207-218 and 230: the confirmation dialog has returned rc.
ServiceConfirmClosed(rc) ==
    /\ pc = "service_confirm"
    /\ IF ServiceConsents(rc)
         THEN /\ log' = log \o <<RcEvent(rc), Event("pkexec")>>
              /\ helperRuns' = helperRuns + 1
              /\ pc' = "service_helper"
              /\ UNCHANGED result
         ELSE /\ log' = Append(log, RcEvent(rc))
              /\ pc' = "done"
              /\ result' = "False"
              /\ UNCHANGED helperRuns
    /\ UNCHANGED <<platform, op, raised, calls, settings, saved, groupExists,
                   userInGroup, dockerReady, pdf_viewers, search_idx, todo, args, filename>>

\* ServiceRechecks that never looks at the return code.
ServiceRechecks_Always(code) == TRUE

\* Line 219: whether the code asks is_docker_ready again after the helper.
ServiceRechecks(code) == code = 0

\* Lines 211-228: pkexec enable_docker_service.sh has exited with code; the
\* service answers nowReady afterwards.
ServiceHelperExited(code, nowReady) ==
    /\ pc = "service_helper"
    /\ dockerReady' = nowReady
    /\ IF ServiceRechecks(code)
         THEN IF nowReady
                THEN /\ log' = log \o <<ExitEvent(code), ReadyEvent(nowReady)>>
                     /\ pc' = "done"
                     /\ result' = "True"
                ELSE /\ log' = log \o <<ExitEvent(code), ReadyEvent(nowReady),
                                        Event("notice_not_responding")>>
                     /\ pc' = "service_notice"
                     /\ UNCHANGED result
         ELSE /\ log' = log \o <<ExitEvent(code), Event("notice_failed")>>
              /\ pc' = "service_notice"
              /\ UNCHANGED result
    /\ UNCHANGED <<platform, op, raised, calls, helperRuns, settings, saved,
                   groupExists, userInGroup, pdf_viewers, search_idx, todo, args, filename>>

\* Lines 225/228-230: the notice is closed.
ServiceNoticeClosed(rc) ==
    /\ pc = "service_notice"
    /\ log' = Append(log, RcEvent(rc))
    /\ pc' = "done"
    /\ result' = "False"
    /\ UNCHANGED <<platform, op, raised, calls, helperRuns, settings, saved,
                   groupExists, userInGroup, dockerReady, pdf_viewers,
                   search_idx, todo, args, filename>>

-----------------------------------------------------------------------------
(* Spec: the privilege flows on a Linux host.                              *)

Init ==
    /\ platform = "Linux"
    /\ op = "none"
    /\ pc = "idle"
    /\ result = "None"
    /\ raised = "none"
    /\ log = << >>
    /\ calls = 0
    /\ helperRuns = 0
    /\ \E prefers \in BOOLEAN : settings = DefaultSettings(prefers, "none")
    /\ saved = settings
    /\ groupExists \in BOOLEAN
    /\ userInGroup \in BOOLEAN
    /\ userInGroup => groupExists
    /\ dockerReady \in BOOLEAN
    /\ pdf_viewers = NoViewers
    /\ search_idx = 0
    /\ todo = 0
    /\ args = NoArgs
    /\ filename = NoArgs

Next ==
    \/ ensure_docker_group_preference
    \/ \E rc \in AlertOutcomes(TRUE) : GroupConfirmClosed(rc)
    \/ \E code \in ExitCodes : GroupHelperExited(code)
    \/ \E rc \in AlertOutcomes(FALSE) : GroupNoticeClosed(rc)
    \/ ensure_docker_service_is_started
    \/ \E rc \in AlertOutcomes(FALSE) : ServiceConfirmClosed(rc)
    \/ \E code \in ExitCodes, nowReady \in BOOLEAN : ServiceHelperExited(code, nowReady)
    \/ \E rc \in AlertOutcomes(FALSE) : ServiceNoticeClosed(rc)

Spec == Init /\ [][Next]_vars

-----------------------------------------------------------------------------
(* The viewer registry: GuiCommon.__init__ and _find_pdf_viewers.          *)

MaxEntries == 2

\* Lines 120-124: the search paths, in the order they are scanned.
SearchPaths == <<"/usr/share/applications", "/usr/local/share/applications",
                 "~/.local/share/applications">>

\* Lines 114 and 134: the name the platform's branch leaves out.
OwnName(system) == IF system = "Darwin" THEN "Dangerzone" ELSE "dangerzone"

Names == {"dangerzone", "Dangerzone", "Evince"}

\* Launch descriptors: an Exec command template or a bundle identifier,
\* as a sequence of characters.
Descriptors == { <<"e", " ", "%", "U">>, <<"x", "p", "d", "f">> }

\* What os.listdir(search_path) can do (line 126).
ListDirOutcomes == {"ok", "FileNotFoundError", "PermissionError"}

\* A directory entry as the Linux branch reads it (lines 127-138): its
\* extension, whether DesktopEntry(full_filename) parses it, whether
\* getMimeTypes() holds application/pdf, getName() and getExec().
DirEntries ==
    {[ext |-> ".txt", parses |-> FALSE, pdf |-> FALSE, name |-> "", desc |-> << >>]}
    \cup {[ext |-> ".desktop", parses |-> FALSE, pdf |-> FALSE, name |-> "",
           desc |-> << >>]}
    \cup [ext : {".desktop"}, parses : {TRUE}, pdf : BOOLEAN, name : Names,
          desc : Descriptors]

\* A role handler as the Darwin branch reads it (lines 90-116): whether
\* LSCopyApplicationURLsForBundleIdentifier resolves it, what is at
\* Contents/Info.plist, its CFBundleName ("" when absent or empty) and its
\* bundle identifier.
Bundles ==
    [resolved : BOOLEAN, plist : {"missing", "malformed", "ok"},
     name : Names \cup {""}, desc : Descriptors]

DictHas(d, k) == \E i \in DOMAIN d : d[i].name = k

DictGet(d, k) == d[CHOOSE i \in DOMAIN d : d[i].name = k].desc

\* DictSet that adds an entry without looking for the key.
DictSet_Append(d, k, v) == Append(d, [name |-> k, desc |-> v])

\* d[k] = v on a Python dict (lines 116 and 136-138): an existing key keeps
\* its place and takes the new value, a new key goes last.
DictSet(d, k, v) ==
    IF DictHas(d, k)
      THEN [i \in DOMAIN d |-> IF d[i].name = k THEN [name |-> k, desc |-> v] ELSE d[i]]
      ELSE Append(d, [name |-> k, desc |-> v])

\* Lines 132-135: whether a parsed desktop entry is recorded.
KeepsDesktopEntry(e) == e.pdf /\ e.name # OwnName("Linux")

\* Lines 112-115: whether a bundle with a readable plist is recorded.
KeepsBundle(b) == b.name # "" /\ b.name # OwnName("Darwin")

\* Lines 28-39, 83-85 and 118: construction starts _find_pdf_viewers; the
\* Darwin branch receives n role handlers. Any other platform.system()
\* returns the empty mapping.
GuiCommonInit(n) ==
    /\ pc = "start"
    /\ op' = "find_pdf_viewers"
    /\ pdf_viewers' = NoViewers
    /\ IF platform = "Darwin"
         THEN /\ todo' = n
              /\ search_idx' = 0
              /\ pc' = IF n = 0 THEN "done" ELSE "darwin_handler"
              /\ result' = IF n = 0 THEN "mapping" ELSE "None"
         ELSE IF platform = "Linux"
         THEN /\ n = 0
              /\ todo' = 0
              /\ search_idx' = 1
              /\ pc' = "linux_listdir"
              /\ result' = "None"
         ELSE /\ n = 0
              /\ todo' = 0
              /\ search_idx' = 0
              /\ pc' = "done"
              /\ result' = "mapping"
    /\ UNCHANGED <<platform, raised, log, calls, helperRuns, settings, saved,
                   groupExists, userInGroup, dockerReady, args, filename>>

\* Lines 120 and 143: on to the next search path, or return the mapping.
AfterSearchPath ==
    IF search_idx < Len(SearchPaths)
      THEN search_idx' = search_idx + 1 /\ pc' = "linux_listdir" /\ result' = "None"
      ELSE search_idx' = search_idx /\ pc' = "done" /\ result' = "mapping"

\* Lines 125-126 and 140-141: os.listdir(search_path). Only
\* FileNotFoundError is caught; any other exception leaves the function.
ListDir(outcome, n) ==
    /\ pc = "linux_listdir"
    /\ IF outcome = "FileNotFoundError"
         THEN /\ n = 0
              /\ AfterSearchPath
              /\ UNCHANGED <<todo, raised>>
         ELSE IF outcome = "ok"
         THEN IF n = 0
                THEN AfterSearchPath /\ UNCHANGED <<todo, raised>>
                ELSE /\ todo' = n
                     /\ pc' = "linux_file"
                     /\ UNCHANGED <<search_idx, result, raised>>
         ELSE /\ n = 0
              /\ raised' = outcome
              /\ pc' = "raised"
              /\ UNCHANGED <<search_idx, todo, result>>
    /\ UNCHANGED <<platform, op, log, calls, helperRuns, settings, saved, groupExists,
                   userInGroup, dockerReady, pdf_viewers, args, filename>>

\* Lines 127-138: one entry of the listing.
ScanDirEntry(e) ==
    /\ pc = "linux_file"
    /\ IF e.ext = ".desktop" /\ ~e.parses
         THEN /\ raised' = "ParsingError"
              /\ pc' = "raised"
              /\ UNCHANGED <<pdf_viewers, log, todo, search_idx, result>>
         ELSE /\ IF e.ext = ".desktop" /\ KeepsDesktopEntry(e)
                   THEN /\ pdf_viewers' = DictSet(pdf_viewers, e.name, e.desc)
                        /\ log' = Append(log, Event("setitem"))
                   ELSE UNCHANGED <<pdf_viewers, log>>
              /\ todo' = todo - 1
              /\ IF todo = 1
                   THEN AfterSearchPath
                   ELSE UNCHANGED <<pc, search_idx, result>>
              /\ UNCHANGED raised
    /\ UNCHANGED <<platform, op, calls, helperRuns, settings, saved, groupExists,
                   userInGroup, dockerReady, args, filename>>

\* Lines 90-116: one role handler. plistlib.loads raises on a malformed
\* plist and nothing catches it.
ScanBundle(b) ==
    /\ pc = "darwin_handler"
    /\ IF b.resolved /\ b.plist = "malformed"
         THEN /\ raised' = "InvalidFileException"
              /\ pc' = "raised"
              /\ UNCHANGED <<pdf_viewers, log, todo, result>>
         ELSE /\ IF b.resolved /\ b.plist = "ok" /\ KeepsBundle(b)
                   THEN /\ pdf_viewers' = DictSet(pdf_viewers, b.name, b.desc)
                        /\ log' = Append(log, Event("setitem"))
                   ELSE UNCHANGED <<pdf_viewers, log>>
              /\ todo' = todo - 1
              /\ pc' = IF todo = 1 THEN "done" ELSE pc
              /\ result' = IF todo = 1 THEN "mapping" ELSE result
              /\ UNCHANGED raised
    /\ UNCHANGED <<platform, op, calls, helperRuns, settings, saved, groupExists,
                   userInGroup, dockerReady, search_idx, args, filename>>

InitRegistry ==
    /\ platform \in {"Darwin", "Linux", "Windows"}
    /\ op = "none"
    /\ pc = "start"
    /\ result = "None"
    /\ raised = "none"
    /\ log = << >>
    /\ calls = 0
    /\ helperRuns = 0
    /\ settings = DefaultSettings(FALSE, "none")
    /\ saved = settings
    /\ groupExists = FALSE
    /\ userInGroup = FALSE
    /\ dockerReady = FALSE
    /\ pdf_viewers = NoViewers
    /\ search_idx = 0
    /\ todo = 0
    /\ args = NoArgs
    /\ filename = NoArgs

NextRegistry ==
    \/ \E n \in 0..MaxEntries : GuiCommonInit(n)
    \/ \E outcome \in ListDirOutcomes, n \in 0..MaxEntries : ListDir(outcome, n)
    \/ \E e \in DirEntries : ScanDirEntry(e)
    \/ \E b \in Bundles : ScanBundle(b)

SpecRegistry == InitRegistry /\ [][NextRegistry]_vars

-----------------------------------------------------------------------------
(* The viewer launcher: open_pdf_viewer.                                   *)

MaxTemplateLen == 4

Alphabet == {"a", " ", "%", "f", "U", "'", "\"", "\\"}

\* Every command template of at most MaxTemplateLen characters.
Templates == UNION {[1..n -> Alphabet] : n \in 0..MaxTemplateLen}

Filenames == { <<"a">>, <<"p", " ", "q">> }

\* shlex.split(s) (line 64): a POSIX-mode shlex with whitespace_split set
\* and no comment characters.
Whitespace == {" "}
Quotes == {"'", "\""}
Escape == {"\\"}
EscapedQuotes == {"\""}

\* shlex.read_token, run over the whole string: i is the next character,
\* state the lexer state (" " between tokens, "a" inside a word, a quote
\* character inside quotes, the escape character after a backslash),
\* escapedstate the state an escape returns to, token and quoted the token
\* under construction, out the tokens already read.
RECURSIVE ShlexScan(_, _, _, _, _, _, _)
ShlexScan(s, i, state, escapedstate, token, quoted, out) ==
    IF i > Len(s)
      THEN IF state \in Quotes
             THEN [error |-> "ValueError", tokens |-> out]  \* No closing quotation
           ELSE IF state \in Escape
             THEN [error |-> "ValueError", tokens |-> out]  \* No escaped character
           ELSE [error |-> "none",
                 tokens |-> IF token # << >> \/ quoted THEN Append(out, token) ELSE out]
      ELSE LET c == s[i] IN
           IF state = " "
             THEN IF c \in Whitespace
                    THEN ShlexScan(s, i + 1, " ", escapedstate, token, quoted, out)
                  ELSE IF c \in Escape
                    THEN ShlexScan(s, i + 1, c, "a", token, quoted, out)
                  ELSE IF c \in Quotes
                    THEN ShlexScan(s, i + 1, c, escapedstate, token, quoted, out)
                  ELSE ShlexScan(s, i + 1, "a", escapedstate, <<c>>, quoted, out)
           ELSE IF state \in Quotes
             THEN IF c = state
                    THEN ShlexScan(s, i + 1, "a", escapedstate, token, TRUE, out)
                  ELSE IF c \in Escape /\ state \in EscapedQuotes
                    THEN ShlexScan(s, i + 1, c, state, token, TRUE, out)
                  ELSE ShlexScan(s, i + 1, state, escapedstate, Append(token, c), TRUE, out)
           ELSE IF state \in Escape
             THEN LET kept == IF escapedstate \in Quotes /\ c # state /\ c # escapedstate
                                THEN Append(token, state)
                                ELSE token
                  IN ShlexScan(s, i + 1, escapedstate, escapedstate, Append(kept, c),
                               quoted, out)
           ELSE \* state = "a"
                IF c \in Whitespace
                  THEN ShlexScan(s, i + 1, " ", " ", << >>, FALSE,
                                 IF token # << >> \/ quoted THEN Append(out, token) ELSE out)
                ELSE IF c \in Quotes
                  THEN ShlexScan(s, i + 1, c, escapedstate, token, quoted, out)
                ELSE IF c \in Escape
                  THEN ShlexScan(s, i + 1, c, "a", token, quoted, out)
                ELSE ShlexScan(s, i + 1, "a", escapedstate, Append(token, c), quoted, out)

ShlexSplit(s) == ShlexScan(s, 1, " ", " ", << >>, FALSE, << >>)

\* IsPlaceholder without the %U test of line 73.
IsPlaceholder_NoUpperU(tok) ==
    \/ tok = <<"%", "f">>
    \/ tok = <<"%", "F">>
    \/ tok = <<"%", "u">>

\* Lines 69-74: the four placeholder tokens.
IsPlaceholder(tok) ==
    \/ tok = <<"%", "f">>
    \/ tok = <<"%", "F">>
    \/ tok = <<"%", "u">>
    \/ tok = <<"%", "U">>

\* Lines 68-75: every placeholder token becomes the file name.
SubstituteArgs(tokens, fn) ==
    [i \in DOMAIN tokens |-> IF IsPlaceholder(tokens[i]) THEN fn ELSE tokens[i]]

\* Line 55: the Darwin command.
OpenArgs(bundle_identifier, fn) ==
    << <<"o", "p", "e", "n">>, <<"-", "b">>, bundle_identifier, fn >>

\* What handing an argument list to subprocess can do: the child starts,
\* or the executable cannot be started and OSError is raised. An empty
\* list has no args[0] and raises IndexError.
SpawnOutcomes == {"ok", "OSError"}

\* Lines 48-80. spawn is the outcome of subprocess.run or subprocess.Popen.
open_pdf_viewer(fn, spawn) ==
    /\ CanCall
    /\ op' = "open"
    /\ calls' = calls + 1
    /\ filename' = fn
    /\ result' = "None"
    /\ IF ~DictHas(pdf_viewers, settings.open_app)
         THEN /\ pc' = "done"
              /\ log' = << >>
              /\ args' = NoArgs
              /\ UNCHANGED raised
         ELSE IF platform = "Darwin"
         THEN /\ args' = OpenArgs(DictGet(pdf_viewers, settings.open_app), fn)
              /\ log' = <<Event("print"), Event("run")>>
              /\ raised' = IF spawn = "ok" THEN "none" ELSE spawn
              /\ pc' = IF spawn = "ok" THEN "done" ELSE "raised"
         ELSE IF platform = "Linux"
         THEN LET split == ShlexSplit(DictGet(pdf_viewers, settings.open_app)) IN
              IF split.error # "none"
                THEN /\ args' = NoArgs
                     /\ log' = << >>
                     /\ raised' = split.error
                     /\ pc' = "raised"
                ELSE /\ args' = SubstituteArgs(split.tokens, fn)
                     /\ log' = <<Event("print"), Event("Popen")>>
                     /\ raised' = IF args' = << >> THEN "IndexError"
                                  ELSE IF spawn = "ok" THEN "none" ELSE spawn
                     /\ pc' = IF raised' = "none" THEN "done" ELSE "raised"
         ELSE /\ pc' = "done"
              /\ log' = << >>
              /\ args' = NoArgs
              /\ UNCHANGED raised
    /\ UNCHANGED <<platform, helperRuns, settings, saved, groupExists, userInGroup,
                   dockerReady, pdf_viewers, search_idx, todo>>

\* A registry holding one viewer, as _find_pdf_viewers leaves it after one
\* recorded entry, and a stored open_app that is or is not in it.
InitLaunch ==
    /\ platform \in {"Darwin", "Linux", "Windows"}
    /\ op = "none"
    /\ pc = "idle"
    /\ result = "None"
    /\ raised = "none"
    /\ log = << >>
    /\ calls = 0
    /\ helperRuns = 0
    /\ \E app \in {"Evince", "Okular"} : settings = DefaultSettings(FALSE, app)
    /\ saved = settings
    /\ groupExists = FALSE
    /\ userInGroup = FALSE
    /\ dockerReady = FALSE
    /\ \E t \in IF platform = "Linux" /\ settings.open_app = "Evince"
                   THEN Templates ELSE Descriptors :
          pdf_viewers = IF platform = "Windows" THEN NoViewers
                        ELSE <<[name |-> "Evince", desc |-> t]>>
    /\ search_idx = 0
    /\ todo = 0
    /\ args = NoArgs
    /\ filename = NoArgs

NextLaunch ==
    \E fn \in Filenames, spawn \in SpawnOutcomes : open_pdf_viewer(fn, spawn)

SpecLaunch == InitLaunch /\ [][NextLaunch]_vars

-----------------------------------------------------------------------------
(* Properties of the privilege flows, checked under Spec.                  *)

GroupReturned == op = "group" /\ pc = "done"
ServiceReturned == op = "service" /\ pc = "done"

\* The confirmation dialog of the current call was shown and returned rc.
ConfirmOutcome(rc) ==
    \E i \in DOMAIN log :
        /\ log[i] = Event("confirm")
        /\ i + 1 \in DOMAIN log
        /\ log[i + 1] = RcEvent(rc)

\* The return code after which each flow runs its helper.
Consent(flow) == IF flow = "group" THEN ExtraCode ELSE Accepted

GroupHelperSucceeded ==
    GroupReturned /\ ConfirmOutcome(ExtraCode) /\ Has(ExitEvent(0))

\* C1, as stated: in ensure_docker_group_preference, after the dialog
\* returned 2 and usermod exited 0, linux_prefers_typing_password is False
\* in memory and as saved, and the call returns True.
C1_ReturnsTrueAfterUsermod ==
    GroupHelperSucceeded =>
        /\ settings.linux_prefers_typing_password = FALSE
        /\ saved.linux_prefers_typing_password = FALSE
        /\ result = "True"

\* C1, amended: in ensure_docker_group_preference, after the dialog
\* returned 2 and usermod exited 0, linux_prefers_typing_password is False
\* in memory and as saved, the "log out and log back in" notice was
\* shown, and the call returns False.
C1_ReturnsFalseAfterUsermod ==
    GroupHelperSucceeded =>
        /\ settings.linux_prefers_typing_password = FALSE
        /\ saved.linux_prefers_typing_password = FALSE
        /\ Has(Event("set")) /\ Has(Event("save"))
        /\ Has(Event("notice_relogin"))
        /\ result = "False"

C1_Witness == GroupHelperSucceeded /\ userInGroup

\* C2: a call of ensure_docker_group_preference made while the setting is
\* True, or the docker group is missing, or the user is in the group,
\* returns True at once: no dialog, no helper run, no settings write.
C2_ShortCircuit ==
    [][ ( /\ CanCall
          /\ op' = "group"
          /\ calls' = calls + 1
          /\ \/ settings.linux_prefers_typing_password = TRUE
             \/ ~groupExists
             \/ userInGroup )
        => ( /\ pc' = "done"
             /\ result' = "True"
             /\ log' = << >>
             /\ helperRuns' = helperRuns
             /\ settings' = settings
             /\ saved' = saved ) ]_vars

C2_Witness ==
    /\ GroupReturned /\ result = "True" /\ log = << >>
    /\ settings.linux_prefers_typing_password = FALSE
    /\ userInGroup

ServiceReadyAtOnce == <<ReadyEvent(TRUE)>>

ServiceStarted ==
    <<ReadyEvent(FALSE), Event("confirm"), RcEvent(Accepted), Event("pkexec"),
      ExitEvent(0), ReadyEvent(TRUE)>>

\* C3: ensure_docker_service_is_started returns True exactly when docker
\* was ready at once (no dialog, no helper), or was not ready, the dialog
\* was accepted, the helper exited 0 and the one re-check found it ready.
\* When the helper exited 0 and the re-check was false, the failure notice
\* was shown and the call returns False. Readiness is asked at most twice.
C3_ServiceResult ==
    ServiceReturned =>
        /\ result = "True" <=> (log = ServiceReadyAtOnce \/ log = ServiceStarted)
        /\ (\E i \in DOMAIN log :
               /\ log[i] = ExitEvent(0)
               /\ i + 1 \in DOMAIN log
               /\ log[i + 1] = ReadyEvent(FALSE))
           => (Has(Event("notice_not_responding")) /\ result = "False")
        /\ Count("ready") <= 2

C3_Witness == ServiceReturned /\ log = ServiceStarted /\ result = "True"

HelperFailed == \E code \in ExitCodes \ {0} : Has(ExitEvent(code))

\* C4: in both flows, a call whose helper exited nonzero showed the failure
\* notice, returns False and ran the helper once.
C4_HelperFailure ==
    ((GroupReturned \/ ServiceReturned) /\ HelperFailed) =>
        /\ Has(Event("notice_failed"))
        /\ result = "False"
        /\ Count("pkexec") = 1

C4_Witness == GroupReturned /\ HelperFailed /\ Has(Event("notice_failed"))

\* C5: in both flows, when the confirmation dialog returns Rejected the
\* call returns False in that step: nothing is shown or run afterwards and
\* the settings, in memory and as saved, are unchanged.
C5_Rejected ==
    [][ ( /\ pc \in {"group_confirm", "service_confirm"}
          /\ Len(log') > Len(log)
          /\ log'[Len(log) + 1] = RcEvent(Rejected) )
        => ( /\ pc' = "done"
             /\ result' = "False"
             /\ log' = Append(log, RcEvent(Rejected))
             /\ helperRuns' = helperRuns
             /\ settings' = settings
             /\ saved' = saved ) ]_vars

C5_Witness ==
    /\ GroupReturned /\ ConfirmOutcome(Rejected) /\ result = "False"
    /\ log = <<Event("confirm"), RcEvent(Rejected)>>

\* C6: in ensure_docker_group_preference, after the dialog returned
\* Accepted, linux_prefers_typing_password is True in memory and as saved,
\* no helper was run and the call returns True.
C6_Accepted ==
    (GroupReturned /\ ConfirmOutcome(Accepted)) =>
        /\ settings.linux_prefers_typing_password = TRUE
        /\ saved.linux_prefers_typing_password = TRUE
        /\ Has(Event("set")) /\ Has(Event("save"))
        /\ ~HasKind("pkexec")
        /\ result = "True"

C6_Witness ==
    /\ GroupReturned /\ ConfirmOutcome(Accepted)
    /\ saved.linux_prefers_typing_password = TRUE

\* C10: over any sequence of calls of the two flows, every pkexec run
\* follows, in its own call, the confirmation dialog returning the
\* consenting code (2 in the group flow, Accepted in the service flow); a
\* call runs pkexec at most once, and never after Rejected or without a
\* dialog.
C10_HelperOnlyAfterConsent ==
    /\ \A i \in DOMAIN log :
          log[i].e = "pkexec" =>
              \E j \in 1..(i - 1) :
                  /\ log[j] = Event("confirm")
                  /\ j + 1 < i
                  /\ log[j + 1] = RcEvent(Consent(op))
    /\ Count("pkexec") <= 1
    /\ helperRuns <= calls
    /\ ConfirmOutcome(Rejected) => ~HasKind("pkexec")
    /\ ~HasKind("confirm") => ~HasKind("pkexec")

C10_Witness == helperRuns = 2 /\ calls = 2 /\ HasKind("pkexec") /\ op = "service"

-----------------------------------------------------------------------------
(* Properties of the registry and the launcher.                            *)

\* The four placeholder tokens of the Exec key.
FieldCodes == { <<"%", "f">>, <<"%", "F">>, <<"%", "u">>, <<"%", "U">> }

\* The tokenised template of the selected viewer.
Tokens == ShlexSplit(DictGet(pdf_viewers, settings.open_app)).tokens

FieldCodePositions == {i \in DOMAIN Tokens : Tokens[i] \in FieldCodes}

\* open_pdf_viewer handed an argument list to Popen for a template with
\* exactly one placeholder token.
LaunchedOneFieldCode ==
    /\ op = "open" /\ platform = "Linux" /\ HasKind("Popen")
    /\ Cardinality(FieldCodePositions) = 1

\* C7, as stated: the argument list has the file path at the placeholder's
\* position and at no other position, every other token is unchanged, and
\* the list is as long as the tokenised template.
C7_PathNowhereElse ==
    LaunchedOneFieldCode =>
        LET i == CHOOSE k \in FieldCodePositions : TRUE IN
        /\ Len(args) = Len(Tokens)
        /\ args[i] = filename
        /\ \A j \in DOMAIN args \ {i} : args[j] # filename /\ args[j] = Tokens[j]

\* C7, amended: the argument list has the file path at the placeholder's
\* position, every other token is unchanged (so the path stands at another
\* position only where the template's own token already equals it), and
\* the list is as long as the tokenised template.
C7_Substitution ==
    LaunchedOneFieldCode =>
        LET i == CHOOSE k \in FieldCodePositions : TRUE IN
        /\ Len(args) = Len(Tokens)
        /\ args[i] = filename
        /\ \A j \in DOMAIN args \ {i} : args[j] = Tokens[j]

C7_Witness ==
    /\ LaunchedOneFieldCode
    /\ Len(Tokens) = 2
    /\ \E j \in DOMAIN args : args[j] # filename

\* C8: no public operation raises to its caller.
C8_NothingRaises == raised = "none"

\* C9: in every registry build, on either platform, the keys of the mapping
\* are pairwise distinct and none is the application's own name (the name
\* the platform's branch compares with: "Dangerzone" for CFBundleName,
\* "dangerzone" for the desktop entry's Name).
C9_KeysUniqueNotOwn ==
    /\ \A i, j \in DOMAIN pdf_viewers :
          pdf_viewers[i].name = pdf_viewers[j].name => i = j
    /\ \A i \in DOMAIN pdf_viewers :
          pdf_viewers[i].name #
              (IF platform = "Darwin" THEN "Dangerzone" ELSE "dangerzone")

\* Two recorded entries declared the same name, in different directories.
C9_Witness ==
    /\ platform = "Linux" /\ pc = "done" /\ result = "mapping"
    /\ Count("setitem") = 2
    /\ Len(pdf_viewers) = 1

====
